---------------------------- MODULE Spec2Model ----------------------------
(***************************************************************************)
(* Chronix: the significant-location detector of LocationService, the      *)
(* background location task that drives it, and the AsyncStorage items it  *)
(* keeps.                                                                  *)
(*                                                                         *)
(* Conventions of the model                                                *)
(*  - Time is in milliseconds, as Date.now().  An ISO timestamp string     *)
(*    (toISOString) is modelled by the millisecond value it denotes;       *)
(*    new Date(iso).getTime() gives that value back.                       *)
(*  - All fixes lie on the meridian of longitude 0.  A latitude is an      *)
(*    integer number of 1e-4 degrees, so that toFixed(4) is exact and the  *)
(*    haversine distance is proportional to the latitude difference.       *)
(*  - A string is a sequence of one-character strings.                     *)
(*  - NULL models JavaScript null/undefined; a LocationData object is a    *)
(*    record, its optional locationName the empty string when absent.      *)
(***************************************************************************)
EXTENDS Integers, Sequences, FiniteSets, TLC

\* null / undefined: an optional value is the empty sequence or <<value>>
NULL == <<>>

Some(v) == <<v>>

Val(o) == o[1]

---------------------------------------------------------------------------
(* Program constants *)

\* private readonly STATIONARY_THRESHOLD = 5 * 60 * 1000
STATIONARY_THRESHOLD == 5 * 60 * 1000

\* private readonly LOCATION_RADIUS = 100 (metres)
LOCATION_RADIUS == 100

\* 24 * 60 * 60 * 1000 of saveSignificantLocation; also the length of a UTC day
ONE_DAY == 24 * 60 * 60 * 1000

\* R * (PI / 180) * 1e-4 in millimetres, R = 6371e3: the arc of 1e-4 degree
ArcMm == 11119

---------------------------------------------------------------------------
(* Bounds of the model *)

\* background-task invocations that can be in flight at once
MaxTasks == 2

\* steps the clock takes
MaxTicks == 2

Tasks == 1..MaxTasks

\* fixes the location provider delivers in all
MaxFixes == 4

\* calls of clearAllLocationData in all
MaxClears == 1

\* latitudes the location provider reports: 0 and 5, 5 and 10 are 55.6 m
\* apart, 0 and 10 are 111.2 m apart
FixLats == {0, 5, 10}

\* the clock at start-up: 00:00 UTC of day 2
StartTime == 2 * ONE_DAY

\* The clock is read after the stationary threshold has passed (ShortStep),
\* or five minutes before a whole day has passed (LongStep).
ShortStep == STATIONARY_THRESHOLD

LongStep == ONE_DAY - STATIONARY_THRESHOLD

\* the number of steps that took the clock from StartTime to t
Ticks(t) ==
  ((t - StartTime) \div LongStep) + (((t - StartTime) % LongStep) \div ShortStep)

---------------------------------------------------------------------------
(* Strings *)

Abs(n) == IF n < 0 THEN -n ELSE n

\* String.prototype.toLowerCase, on the characters the model uses
LowerChar(c) ==
  CASE c = "A" -> "a"
    [] c = "B" -> "b"
    [] c = "P" -> "p"
    [] OTHER -> c

toLowerCase(s) == [i \in 1..Len(s) |-> LowerChar(s[i])]

\* String.prototype.trim
RECURSIVE TrimLeft(_)
TrimLeft(s) == IF s # <<>> /\ Head(s) = " " THEN TrimLeft(Tail(s)) ELSE s

RECURSIVE TrimRight(_)
TrimRight(s) ==
  IF s # <<>> /\ s[Len(s)] = " " THEN TrimRight(SubSeq(s, 1, Len(s) - 1)) ELSE s

trim(s) == TrimRight(TrimLeft(s))

\* String.prototype.split(','): the pieces between commas, empty pieces kept
RECURSIVE SplitFrom(_, _, _)
SplitFrom(s, i, cur) ==
  IF i > Len(s) THEN <<cur>>
  ELSE IF s[i] = "," THEN <<cur>> \o SplitFrom(s, i + 1, <<>>)
  ELSE SplitFrom(s, i + 1, Append(cur, s[i]))

split(s) == SplitFrom(s, 1, <<>>)

\* Array.prototype.join(', ')
RECURSIVE join(_)
join(parts) ==
  IF parts = <<>> THEN <<>>
  ELSE IF Len(parts) = 1 THEN parts[1]
  ELSE parts[1] \o <<",", " ">> \o join(Tail(parts))

\* Array.prototype.filter(Boolean) on strings: the non-empty ones
RECURSIVE filterNonEmpty(_)
filterNonEmpty(parts) ==
  IF parts = <<>> THEN <<>>
  ELSE IF Head(parts) = <<>> THEN filterNonEmpty(Tail(parts))
  ELSE <<Head(parts)>> \o filterNonEmpty(Tail(parts))

Digit(d) == CASE d = 0 -> "0" [] d = 1 -> "1" [] d = 2 -> "2" [] d = 3 -> "3"
              [] d = 4 -> "4" [] d = 5 -> "5" [] d = 6 -> "6" [] d = 7 -> "7"
              [] d = 8 -> "8" [] d = 9 -> "9"

RECURSIVE Digits(_)
Digits(n) == IF n < 10 THEN <<Digit(n)>> ELSE Append(Digits(n \div 10), Digit(n % 10))

\* Number.prototype.toFixed(4) of a coordinate of v * 1e-4 degrees
toFixed4(v) ==
  LET a == Abs(v)
      f == a % 10000
  IN  (IF v < 0 THEN <<"-">> ELSE <<>>)
      \o Digits(a \div 10000) \o <<".">>
      \o <<Digit(f \div 1000), Digit((f \div 100) % 10), Digit((f \div 10) % 10), Digit(f % 10)>>

\* `${latitude.toFixed(4)}, ${longitude.toFixed(4)}`
CoordLabel(lat) == toFixed4(lat) \o <<",", " ">> \o toFixed4(0)

---------------------------------------------------------------------------
(* Reverse geocoding: the answers of the two external geocoders *)

\* a LocationGeocodedAddress of expo-location, the fields getLocationName reads
Address(name, street, city) ==
  [name |-> name, street |-> street, district |-> <<>>, city |-> city, region |-> <<>>]

\* What Location.reverseGeocodeAsync may answer for a latitude: it throws, or
\* it resolves to an array: empty, one address without any field, or the
\* address of the place (the cafe up to latitude 5, the depot beyond).
DeviceAnswers(lat) ==
  { [threw |-> TRUE, result |-> <<>>],
    [threw |-> FALSE, result |-> <<>>],
    [threw |-> FALSE, result |-> <<Address(<<>>, <<>>, <<>>)>>],
    [threw |-> FALSE,
     result |-> IF lat <= 5 THEN <<Address(<<"A">>, <<"x">>, <<>>)>>
                ELSE <<Address(<<"B">>, <<"x">>, <<>>)>>] }

\* What the Google geocoding request may answer: fetch or json() throws, or
\* the body has a status and results with a formatted_address.
RemoteAnswers(lat) ==
  { [threw |-> TRUE, status |-> "", results |-> <<>>],
    [threw |-> FALSE, status |-> "ZERO_RESULTS", results |-> <<>>],
    [threw |-> FALSE, status |-> "OK", results |-> <<>>],
    [threw |-> FALSE, status |-> "OK",
     results |-> IF lat <= 5
                 THEN <<[formatted_address |-> <<"a", ",", "x", " ", ",", "P">>]>>
                 ELSE <<[formatted_address |-> <<"B", ",", "y">>]>>] }

\* getLocationName, lines 110-128: the address built from the first result
DeviceAddress(reverseGeocode) ==
  IF Len(reverseGeocode) > 0
  THEN LET location == reverseGeocode[1]
       IN  join(filterNonEmpty(<<location.name, location.street, location.district,
                                 location.city, location.region>>))
  ELSE <<>>

\* a lookup without the catch of lines 154-157: nothing is returned when the
\* device geocoder throws
getLocationNameUncaught(lat, dev, rem) ==
  IF dev.threw THEN <<>>
  ELSE IF DeviceAddress(dev.result) # <<>> THEN DeviceAddress(dev.result)
  ELSE IF rem.threw THEN CoordLabel(lat)
  ELSE IF rem.status = "OK" /\ Len(rem.results) > 0 THEN rem.results[1].formatted_address
  ELSE CoordLabel(lat)

\* getLocationName(latitude, longitude) with the geocoders answering dev and rem
getLocationName(lat, dev, rem) ==
  IF dev.threw THEN CoordLabel(lat)
  ELSE IF DeviceAddress(dev.result) # <<>> THEN DeviceAddress(dev.result)
  ELSE IF rem.threw THEN CoordLabel(lat)
  ELSE IF rem.status = "OK" /\ Len(rem.results) > 0 THEN rem.results[1].formatted_address
  ELSE CoordLabel(lat)

---------------------------------------------------------------------------
(* Place-change classifier and distance *)

\* a comparison of the whole names, as they are spelt
NameSpeltDifferently(oldName, newName) == oldName # newName

\* a classifier for which a part that one label lacks counts as changed
hasLocationNameChangedStrict(oldName, newName) ==
  IF oldName = <<>> \/ newName = <<>> THEN TRUE
  ELSE LET oldSplit == split(toLowerCase(oldName))
           newSplit == split(toLowerCase(newName))
           oldParts == [i \in 1..Len(oldSplit) |-> trim(oldSplit[i])]
           newParts == [i \in 1..Len(newSplit) |-> trim(newSplit[i])]
       IN  IF oldParts[1] # newParts[1] THEN TRUE
           ELSE IF Len(oldParts) > 1 /\ Len(newParts) > 1 /\ oldParts[2] # newParts[2] THEN TRUE
           ELSE IF Len(oldParts) > 2 /\ Len(newParts) > 2 /\ oldParts[3] # newParts[3] THEN TRUE
           ELSE (Len(oldParts) > 1) # (Len(newParts) > 1)

\* hasLocationNameChanged(oldName, newName)
hasLocationNameChanged(oldName, newName) ==
  IF oldName = <<>> \/ newName = <<>> THEN TRUE
  ELSE LET oldSplit == split(toLowerCase(oldName))
           newSplit == split(toLowerCase(newName))
           oldParts == [i \in 1..Len(oldSplit) |-> trim(oldSplit[i])]
           newParts == [i \in 1..Len(newSplit) |-> trim(newSplit[i])]
       IN  IF oldParts[1] # newParts[1] THEN TRUE
           ELSE IF Len(oldParts) > 1 /\ Len(newParts) > 1 /\ oldParts[2] # newParts[2] THEN TRUE
           ELSE IF Len(oldParts) > 2 /\ Len(newParts) > 2 /\ oldParts[3] # newParts[3] THEN TRUE
           ELSE FALSE

\* calculateDistance on one meridian, in millimetres: with equal longitudes
\* a = sin^2(dphi/2), c = |dphi| and the result is R * |dphi|
calculateDistance(lat1, lat2) == Abs(lat2 - lat1) * ArcMm

\* distance > this.LOCATION_RADIUS, the radius taken to millimetres
BeyondRadius(distance) == distance > LOCATION_RADIUS * 1000

---------------------------------------------------------------------------
(* State *)

VARIABLES
  now,                      \* Date.now()
  lastSignificantLocation,  \* LocationService fields (in memory)
  lastLocationUpdate,
  stationaryStartTime,
  storedLast,               \* AsyncStorage item 'last_significant_location'
  storedDays,               \* AsyncStorage items 'significant_locations_<day>', by day
  task,                     \* the invocations of 'background-location-task'
  clear,                    \* the call of clearAllLocationData in flight
  delivered,                \* the number of fixes the provider has delivered
  cleared,                  \* the number of calls of clearAllLocationData
  obs,                      \* history: what has been observed of the run so far
  timeline_entries,         \* the rows of table timeline_entries, by rowid
  lastInsertRowId,          \* the AUTOINCREMENT counter of the table
  timelineEntries,          \* FeedScreen state: the timeline array of the entry
  showLocationHistory,      \* the LocationHistoryModal is open
  entries,                  \* LocationHistoryModal state: the editable entries
  edits,                    \* the number of timeline operations so far
  act,                      \* history: the latest timeline operation
  comparison                \* a call of hasLocationNameChanged: oldName, newName, result

vars == <<now, lastSignificantLocation, lastLocationUpdate, stationaryStartTime,
          storedLast, storedDays, task, clear, delivered, cleared, obs,
          timeline_entries, lastInsertRowId, timelineEntries, showLocationHistory,
          entries, edits, act, comparison>>

fuel == <<delivered, cleared>>

memory == <<lastSignificantLocation, lastLocationUpdate, stationaryStartTime>>

storage == <<storedLast, storedDays>>

feed == <<timeline_entries, lastInsertRowId, timelineEntries, showLocationHistory,
          entries, edits, act>>

\* a LocationData object
LocationData(lat, ts, name) ==
  [latitude |-> lat, longitude |-> 0, timestamp |-> ts, locationName |-> name]

\* new Date().toISOString().split('T')[0]: the UTC day of an instant
DayOf(t) == t \div ONE_DAY

\* An invocation that is not running.  loc is its locationData; key,
\* oneDayAgo and locations are the locals of saveSignificantLocation.  Two
\* fields are history: afterConfirm tells that no stay was confirmed since
\* the fix was delivered, dropped counts the entries the 24-hour filter left
\* out.
IdleTask ==
  [pc |-> "idle", loc |-> NULL, key |-> 0, oneDayAgo |-> 0, locations |-> <<>>,
   afterConfirm |-> TRUE, dropped |-> 0]

IdleClear == [pc |-> "idle", keys |-> {}]

\* what the location provider delivers in one call of the task
MaxBatch == 2

Batches == UNION {[1..n -> FixLats] : n \in 1..MaxBatch}

\* A stay recorded by an earlier run of the app: the depot, as the device
\* geocoder names it; the fix was delivered at 23:55 of day 1 and the stay
\* was saved as day 2 began.
EarlierStay == LocationData(10, StartTime - STATIONARY_THRESHOLD, <<"B", ",", " ", "x">>)

\* the outcome of the latest operation
Outcome(op, label, n) == [op |-> op, label |-> label, n |-> n]

\* The history of a LocationService just constructed.
\*  fresh:     nothing was persisted when it was constructed
\*  lat:       the latitude of the latest fix the detector processed
\*  since:     when the run of processed fixes at that latitude began, or
\*             when the latest stationary window there was completed
\*  first:     the fix that completed the first stationary window
\*  second:    the fix that completed the first later window at a place
\*             whose labels all differ from those of the first
\*  count:     fixes processed, up to 2
\*  pre:       the fields of the service the restart replaced
\*  confirmAt: the timestamp of the fix of the latest confirmed stay
\*  last:      the outcome of the latest operation
\*  surfaced:  the latest call of saveSignificantLocation or of
\*             clearAllLocationData ended by throwing to its caller
\* (since, first and second are kept for a fresh service only)
NewObs(fresh, pre) ==
  [fresh |-> fresh, lat |-> NULL, since |-> 0, first |-> NULL, second |-> NULL,
   count |-> 0, pre |-> pre, confirmAt |-> NULL, surfaced |-> FALSE,
   last |-> Outcome(IF pre = NULL THEN "start" ELSE "restart", <<>>, 0)]

\* The fields of a new LocationService are null; AsyncStorage outlives the
\* process, so the app starts either with no item at all (a first install)
\* or with the items an earlier run left when it recorded EarlierStay.
Init ==
  /\ now = StartTime
  /\ lastSignificantLocation = NULL
  /\ lastLocationUpdate = NULL
  /\ stationaryStartTime = NULL
  /\ \/ storedLast = NULL /\ storedDays = <<>>
     \/ storedLast = Some(EarlierStay) /\ storedDays = (DayOf(StartTime) :> <<EarlierStay>>)
  /\ task = [t \in Tasks |-> IdleTask]
  /\ clear = IdleClear
  /\ delivered = 0
  /\ cleared = 0
  /\ obs = NewObs(storedLast = NULL, NULL)
  /\ timeline_entries = <<>>
  /\ lastInsertRowId = 0
  /\ timelineEntries = <<>>
  /\ showLocationHistory = FALSE
  /\ entries = <<>>
  /\ edits = 0
  /\ act = [op |-> "none", incoming |-> <<>>, before |-> <<>>, inputAfter |-> <<>>,
            after |-> <<>>, fresh |-> FALSE, rowsBefore |-> <<>>,
            malformed |-> FALSE, priorOp |-> "none", priorIncoming |-> <<>>]
  /\ comparison = [oldName |-> <<>>, newName |-> <<>>, result |-> NULL]

---------------------------------------------------------------------------
(* AsyncStorage *)

\* getItem(key) of a day's list: null when the item is absent
getItem(days, key) == IF key \in DOMAIN days THEN Some(days[key]) ELSE NULL

\* setItem(key, value)
setItem(days, key, value) ==
  [k \in DOMAIN days \cup {key} |-> IF k = key THEN value ELSE days[k]]

\* multiRemove(keys)
multiRemove(days, keys) == [k \in DOMAIN days \ keys |-> days[k]]

---------------------------------------------------------------------------
(* What is observed of the detector *)

\* the comma-separated parts of a label, lower-cased and trimmed
Parts(label) ==
  LET pieces == split(toLowerCase(label))
  IN  [i \in 1..Len(pieces) |-> trim(pieces[i])]

\* Two labels name structurally the same place: both are present and their
\* first three parts agree wherever both labels have the part.
SamePlace(a, b) ==
  /\ a # <<>>
  /\ b # <<>>
  /\ \A i \in 1..3 : (i <= Len(Parts(a)) /\ i <= Len(Parts(b))) => Parts(a)[i] = Parts(b)[i]

\* every label the geocoders may give a latitude
LabelsAt(lat) ==
  {getLocationName(lat, dev, rem) : dev \in DeviceAnswers(lat), rem \in RemoteAnswers(lat)}

\* whatever the geocoders answer, the two latitudes get labels of different places
PlacesDiffer(lat1, lat2) ==
  \A a \in LabelsAt(lat1), b \in LabelsAt(lat2) : ~SamePlace(a, b)

Min(a, b) == IF a <= b THEN a ELSE b

\* The history after the detector processed newLocation and went branch.  A
\* stationary window is completed by a fix delivered five minutes or more
\* after the first of a run of processed fixes at one latitude.
ObsDetect(o, newLocation, branch) ==
  LET lat == newLocation.latitude
      same == o.lat = Some(lat)
      done == o.fresh /\ same /\ newLocation.timestamp - o.since >= STATIONARY_THRESHOLD
  IN  [o EXCEPT !.lat = Some(lat),
                !.since = IF ~o.fresh THEN 0
                          ELSE IF same /\ ~done THEN o.since
                          ELSE newLocation.timestamp,
                !.first = IF done /\ o.first = NULL THEN Some(newLocation) ELSE o.first,
                !.second = IF /\ done
                              /\ o.first # NULL
                              /\ o.second = NULL
                              /\ PlacesDiffer(Val(o.first).latitude, lat)
                           THEN Some(newLocation) ELSE o.second,
                !.count = Min(o.count + 1, 2),
                !.pre = NULL,
                !.last = Outcome(branch, <<>>, 0)]

---------------------------------------------------------------------------
(* checkForSignificantLocationChange, the synchronous part (lines 212-274) *)

\* a detector that takes the first fix of a service for a candidate when a
\* last significant location is known
DetectBranchNoBaseline(sig, llu, sst, newLocation, dateNow) ==
  IF sig = NULL THEN "track"
  ELSE IF llu = NULL THEN "ripe"
  ELSE LET distance == calculateDistance(Val(llu).latitude, newLocation.latitude)
       IN  IF BeyondRadius(distance) THEN "track"
           ELSE IF sst # NULL /\ dateNow - Val(sst) >= STATIONARY_THRESHOLD
                THEN "ripe"
                ELSE "wait"

\* Which way the detector goes for newLocation:
\*  "track": lines 213-244, the fix becomes lastLocationUpdate and the
\*           stationary clock starts; returns false
\*  "ripe":  line 251, stationary long enough; the label lookup follows
\*  "wait":  line 274, returns false
DetectBranch(sig, llu, sst, newLocation, dateNow) ==
  IF sig = NULL THEN "track"
  ELSE IF llu = NULL THEN "track"
  ELSE LET distance == calculateDistance(Val(llu).latitude, newLocation.latitude)
       IN  IF BeyondRadius(distance) THEN "track"
           ELSE IF sst # NULL /\ Val(sst) # 0 /\ ~BeyondRadius(distance)
                   /\ dateNow - Val(sst) >= STATIONARY_THRESHOLD
                THEN "ripe"
                ELSE "wait"

Finish(t) == task' = [task EXCEPT ![t] = IdleTask]

\* Lines 212-274 for newLocation, with sig the last significant location
\* after line 210.
Detect(t, newLocation, sig) ==
  LET branch == DetectBranch(sig, lastLocationUpdate, stationaryStartTime,
                             newLocation, now)
  IN  /\ lastSignificantLocation' = sig
      /\ IF branch = "track"
         THEN /\ lastLocationUpdate' = Some(newLocation)
              /\ stationaryStartTime' = Some(now)
              /\ Finish(t)
         ELSE IF branch = "ripe"
         THEN /\ task' = [task EXCEPT ![t].pc = "geocode", ![t].loc = Some(newLocation)]
              /\ UNCHANGED <<lastLocationUpdate, stationaryStartTime>>
         ELSE /\ Finish(t)
              /\ UNCHANGED <<lastLocationUpdate, stationaryStartTime>>
      /\ obs' = ObsDetect(obs, newLocation, branch)
      /\ UNCHANGED <<now, feed, comparison, storage, clear>>

---------------------------------------------------------------------------
(* The background location task and checkForSignificantLocationChange *)

\* The task is called with a batch of locations: it builds locationData from
\* locations[0], stamped new Date(), and calls
\* checkForSignificantLocationChange, which awaits
\* loadLastSignificantLocation when no last significant location is in
\* memory and otherwise goes on at once.  (The await of the import of the
\* service, already loaded, ends in the same turn.)  An invocation takes the
\* lowest slot that is free.
TaskStart(t, locations) ==
  /\ task[t].pc = "idle"
  /\ \A u \in Tasks : u < t => task[u].pc # "idle"
  /\ delivered + Len(locations) <= MaxFixes
  /\ delivered' = delivered + Len(locations)
  /\ UNCHANGED cleared
  /\ LET locationData == LocationData(locations[1], now, <<>>)
     IN  IF lastSignificantLocation = NULL
         THEN /\ task' = [task EXCEPT ![t].pc = "load", ![t].loc = Some(locationData)]
              /\ UNCHANGED <<now, feed, comparison, memory, storage, clear, obs>>
         ELSE Detect(t, locationData, lastSignificantLocation)

\* loadLastSignificantLocation: getItem('last_significant_location') answers
\* and a stored location is assigned, or getItem throws (logged, nothing is
\* assigned); checkForSignificantLocationChange goes on.
Load(t, ok) ==
  /\ task[t].pc = "load"
  /\ LET data == IF ok THEN storedLast ELSE NULL
     IN  Detect(t, Val(task[t].loc),
                IF data # NULL THEN data ELSE lastSignificantLocation)
  /\ UNCHANGED fuel

\* What lines 253-269 decide once getLocationName has answered newLocationName:
\*  "threw":  this.lastSignificantLocation is null at line 256, the TypeError
\*            is caught at line 276; returns false
\*  "significant" / "same": the branches of line 259
ClassifyBranch(sig, newLocationName) ==
  IF sig = NULL THEN "threw"
  ELSE IF hasLocationNameChanged(Val(sig).locationName, newLocationName)
       THEN "significant"
       ELSE "same"

\* line 254: newLocation.locationName = newLocationName
Labelled(newLocation, newLocationName) ==
  [newLocation EXCEPT !.locationName = newLocationName]

\* getLocationName answers; newLocation gets its name and is classified
Classify(t, dev, rem) ==
  /\ task[t].pc = "geocode"
  /\ LET newLocationName == getLocationName(Val(task[t].loc).latitude, dev, rem)
         newLocation == Labelled(Val(task[t].loc), newLocationName)
         branch == ClassifyBranch(lastSignificantLocation, newLocationName)
     IN  IF branch = "significant"
         THEN /\ lastSignificantLocation' = Some(newLocation)
              /\ task' = [u \in Tasks |->
                            IF u = t
                            THEN [task[t] EXCEPT !.pc = "saveLast",
                                                 !.loc = Some(newLocation)]
                            ELSE IF task[u].pc = "idle" THEN task[u]
                            ELSE [task[u] EXCEPT !.afterConfirm = FALSE]]
              /\ obs' = [obs EXCEPT !.confirmAt = Some(newLocation.timestamp),
                                    !.last = Outcome(branch, newLocationName, 0)]
              /\ UNCHANGED <<now, feed, comparison, lastLocationUpdate, stationaryStartTime, storage,
                             clear, fuel>>
         ELSE /\ Finish(t)
              /\ obs' = [obs EXCEPT !.last = Outcome(branch, newLocationName, 0)]
              /\ UNCHANGED <<now, feed, comparison, memory, storage, clear, fuel>>

\* await this.getLocationName(...): the geocoders answer in any of their ways
LabelLookup(t) ==
  /\ task[t].pc = "geocode"
  /\ \E dev \in DeviceAnswers(Val(task[t].loc).latitude),
        rem \in RemoteAnswers(Val(task[t].loc).latitude) : Classify(t, dev, rem)

\* saveLastSignificantLocation: setItem('last_significant_location') is done,
\* or throws (logged).  Then lines 264-265: the stationary clock restarts and
\* the check returns true; the task calls saveSignificantLocation, which
\* names the key of today (line 313) and awaits getItem.
SaveLast(t, ok) ==
  /\ task[t].pc = "saveLast"
  /\ storedLast' = IF ok THEN task[t].loc ELSE storedLast
  /\ stationaryStartTime' = Some(now)
  /\ task' = [task EXCEPT ![t].pc = "saveRead", ![t].key = DayOf(now)]
  /\ UNCHANGED <<now, feed, comparison, lastSignificantLocation, lastLocationUpdate, storedDays,
                 clear, fuel, obs>>

\* a filter that keeps the location stamped exactly one day ago
RECURSIVE filterLocationsInclusive(_, _)
filterLocationsInclusive(locations, oneDayAgo) ==
  IF locations = <<>> THEN <<>>
  ELSE IF Head(locations).timestamp >= oneDayAgo
       THEN <<Head(locations)>> \o filterLocationsInclusive(Tail(locations), oneDayAgo)
       ELSE filterLocationsInclusive(Tail(locations), oneDayAgo)

\* Keep only last 24 hours of data: new Date(loc.timestamp) > oneDayAgo
RECURSIVE filterLocations(_, _)
filterLocations(locations, oneDayAgo) ==
  IF locations = <<>> THEN <<>>
  ELSE IF Head(locations).timestamp > oneDayAgo
       THEN <<Head(locations)>> \o filterLocations(Tail(locations), oneDayAgo)
       ELSE filterLocations(Tail(locations), oneDayAgo)

\* saveSignificantLocation, lines 317-327: getItem answers (or throws:
\* logged, nothing saved), the location is pushed, and the list is filtered
\* by the clock as it is now
SaveRead(t, ok) ==
  /\ task[t].pc = "saveRead"
  /\ IF ok
     THEN LET existingData == getItem(storedDays, task[t].key)
              locations == IF existingData # NULL THEN Val(existingData) ELSE <<>>
              oneDayAgo == now - ONE_DAY
              filteredLocations == filterLocations(Append(locations, Val(task[t].loc)),
                                                   oneDayAgo)
          IN  /\ task' = [task EXCEPT ![t].pc = "saveWrite",
                                      ![t].oneDayAgo = oneDayAgo,
                                      ![t].locations = filteredLocations,
                                      ![t].dropped = Len(locations) + 1
                                                     - Len(filteredLocations)]
              /\ UNCHANGED obs
     ELSE /\ Finish(t)
          /\ obs' = [obs EXCEPT !.last = Outcome("unsaved", <<>>, 0),
                                !.surfaced = FALSE]
  /\ UNCHANGED <<now, feed, comparison, memory, storage, clear, fuel>>

\* line 330: setItem(key, filteredLocations) is done, or throws; lines
\* 332-334 catch what is thrown and log it, and the call returns to the task
SaveWrite(t, ok) ==
  /\ task[t].pc = "saveWrite"
  /\ storedDays' = IF ok THEN setItem(storedDays, task[t].key, task[t].locations)
                   ELSE storedDays
  /\ obs' = [obs EXCEPT !.last = IF ok THEN Outcome("saved", <<>>, task[t].dropped)
                                 ELSE Outcome("unsaved", <<>>, 0),
                        !.surfaced = FALSE]
  /\ Finish(t)
  /\ UNCHANGED <<now, feed, comparison, memory, storedLast, clear, fuel>>

---------------------------------------------------------------------------
(* clearAllLocationData *)

\* called from the feed screen; it awaits getAllKeys
ClearStart ==
  /\ clear.pc = "idle"
  /\ cleared < MaxClears
  /\ cleared' = cleared + 1
  /\ clear' = [clear EXCEPT !.pc = "keys"]
  /\ obs' = [obs EXCEPT !.fresh = FALSE, !.since = 0, !.first = NULL,
                        !.second = NULL, !.pre = NULL]
  /\ UNCHANGED <<now, feed, comparison, memory, storage, task, delivered>>

\* getAllKeys answers and the keys of location data are kept (no item is ever
\* written under 'location_history_'); with keys to remove multiRemove is
\* called, otherwise removeItem.  A throw ends the call at line 412.
ClearKeys(ok) ==
  /\ clear.pc = "keys"
  /\ clear' = IF ~ok THEN IdleClear
              ELSE IF DOMAIN storedDays # {}
                   THEN [pc |-> "remove", keys |-> DOMAIN storedDays]
                   ELSE [pc |-> "removeLast", keys |-> {}]
  /\ obs' = IF ok THEN obs
            ELSE [obs EXCEPT !.last = Outcome("uncleared", <<>>, 0), !.surfaced = FALSE]
  /\ UNCHANGED <<now, feed, comparison, memory, storage, task, fuel>>

\* multiRemove(locationKeys) is done and removeItem is called, or it throws
ClearRemove(ok) ==
  /\ clear.pc = "remove"
  /\ storedDays' = IF ok THEN multiRemove(storedDays, clear.keys) ELSE storedDays
  /\ clear' = IF ok THEN [pc |-> "removeLast", keys |-> {}] ELSE IdleClear
  /\ obs' = IF ok THEN obs
            ELSE [obs EXCEPT !.last = Outcome("uncleared", <<>>, 0), !.surfaced = FALSE]
  /\ UNCHANGED <<now, feed, comparison, memory, storedLast, task, fuel>>

\* a clear that also resets the stationary clock, and not the last fix
ClearRemoveLastAndClock(ok) ==
  /\ clear.pc = "removeLast"
  /\ storedLast' = IF ok THEN NULL ELSE storedLast
  /\ lastSignificantLocation' = IF ok THEN NULL ELSE lastSignificantLocation
  /\ stationaryStartTime' = IF ok THEN NULL ELSE stationaryStartTime
  /\ clear' = IdleClear
  /\ obs' = [obs EXCEPT !.last = Outcome(IF ok THEN "cleared" ELSE "uncleared", <<>>, 0),
                        !.surfaced = FALSE]
  /\ UNCHANGED <<now, feed, comparison, lastLocationUpdate, storedDays, task, fuel>>

\* removeItem('last_significant_location') is done and, line 411 ("Reset
\* tracking state"), this.lastSignificantLocation = null; or it throws.
\* Whatever a call of AsyncStorage throws in clearAllLocationData is caught
\* and logged at lines 412-414 and the call returns to the feed screen.
ClearRemoveLast(ok) ==
  /\ clear.pc = "removeLast"
  /\ storedLast' = IF ok THEN NULL ELSE storedLast
  /\ lastSignificantLocation' = IF ok THEN NULL ELSE lastSignificantLocation
  /\ clear' = IdleClear
  /\ obs' = [obs EXCEPT !.last = Outcome(IF ok THEN "cleared" ELSE "uncleared", <<>>, 0),
                        !.surfaced = FALSE]
  /\ UNCHANGED <<now, feed, comparison, lastLocationUpdate, stationaryStartTime, storedDays, task,
                 fuel>>

---------------------------------------------------------------------------
(* The environment *)

\* The app is stopped and started again: a new LocationService, nothing in
\* flight, AsyncStorage as it was.
Restart ==
  /\ lastSignificantLocation' = NULL
  /\ lastLocationUpdate' = NULL
  /\ stationaryStartTime' = NULL
  /\ task' = [t \in Tasks |-> IdleTask]
  /\ clear' = IdleClear
  /\ obs' = NewObs(storedLast = NULL /\ storedDays = <<>>,
                   Some([lastSignificantLocation |-> lastSignificantLocation,
                         lastLocationUpdate |-> lastLocationUpdate,
                         stationaryStartTime |-> stationaryStartTime]))
  /\ UNCHANGED <<now, feed, comparison, storage, fuel>>

\* time passes
Tick(step) ==
  /\ Ticks(now) < MaxTicks
  /\ now' = now + step
  /\ UNCHANGED <<memory, storage, task, clear, fuel, obs, feed, comparison>>

Quiet == clear.pc = "idle" /\ \A t \in Tasks : task[t].pc = "idle"

\* single fixes at the cafe door and at the depot
Singles == {<<0>>, <<10>>}

\* Invocations of the task overlap at their awaits; five minutes pass
\* between readings of the clock.
Next ==
  \/ \E t \in Tasks, locations \in Singles : TaskStart(t, locations)
  \/ \E t \in Tasks : Load(t, TRUE)
  \/ \E t \in Tasks : LabelLookup(t)
  \/ \E t \in Tasks : SaveLast(t, TRUE)
  \/ \E t \in Tasks : SaveRead(t, TRUE)
  \/ \E t \in Tasks : SaveWrite(t, TRUE)
  \/ Tick(ShortStep)

Spec == Init /\ [][Next]_vars

\* One call at a time: an invocation of the task or a call of
\* clearAllLocationData starts, and the app restarts, only when nothing is
\* in flight.
NextSeq ==
  \/ \E t \in Tasks, locations \in Batches : Quiet /\ TaskStart(t, locations)
  \/ \E t \in Tasks : Load(t, TRUE)
  \/ \E t \in Tasks : LabelLookup(t)
  \/ \E t \in Tasks : SaveLast(t, TRUE)
  \/ \E t \in Tasks : SaveRead(t, TRUE)
  \/ \E t \in Tasks : SaveWrite(t, TRUE)
  \/ Quiet /\ ClearStart
  \/ ClearKeys(TRUE)
  \/ ClearRemove(TRUE)
  \/ ClearRemoveLast(TRUE)
  \/ Quiet /\ Restart
  \/ \E step \in {ShortStep, LongStep} : Tick(step)

SpecSeq == Init /\ [][NextSeq]_vars

\* One call at a time, and any AsyncStorage call may throw and the app may
\* be stopped at any moment.
NextFaults ==
  \/ \E t \in Tasks, locations \in Singles : Quiet /\ TaskStart(t, locations)
  \/ \E t \in Tasks, ok \in BOOLEAN : Load(t, ok)
  \/ \E t \in Tasks : LabelLookup(t)
  \/ \E t \in Tasks, ok \in BOOLEAN : SaveLast(t, ok)
  \/ \E t \in Tasks, ok \in BOOLEAN : SaveRead(t, ok)
  \/ \E t \in Tasks, ok \in BOOLEAN : SaveWrite(t, ok)
  \/ Quiet /\ ClearStart
  \/ \E ok \in BOOLEAN : ClearKeys(ok)
  \/ \E ok \in BOOLEAN : ClearRemove(ok)
  \/ \E ok \in BOOLEAN : ClearRemoveLast(ok)
  \/ Restart
  \/ \E step \in {ShortStep, LongStep} : Tick(step)

SpecFaults == Init /\ [][NextFaults]_vars

\* One call at a time, the clock read minute by minute: fixes follow each
\* other within the stationary threshold.
BriefStep == 60 * 1000

NextBrief ==
  \/ \E t \in Tasks, locations \in Batches : Quiet /\ TaskStart(t, locations)
  \/ \E t \in Tasks : Load(t, TRUE)
  \/ \E t \in Tasks : LabelLookup(t)
  \/ \E t \in Tasks : SaveLast(t, TRUE)
  \/ \E t \in Tasks : SaveRead(t, TRUE)
  \/ \E t \in Tasks : SaveWrite(t, TRUE)
  \/ Tick(BriefStep)

SpecBrief == Init /\ [][NextBrief]_vars

\* The user clears the location data once while the background task may be
\* suspended at one of its awaits: clearAllLocationData is called from the
\* feed screen whatever the task is doing, since neither holds a lock.  No
\* fix is delivered once the clear has begun, so that every stay seen
\* afterwards comes from a fix delivered before it; no call of AsyncStorage
\* fails.
NextClearRace ==
  \/ \E t \in Tasks, locations \in Singles :
       Quiet /\ cleared = 0 /\ TaskStart(t, locations)
  \/ \E t \in Tasks : Load(t, TRUE)
  \/ \E t \in Tasks : LabelLookup(t)
  \/ \E t \in Tasks : SaveLast(t, TRUE)
  \/ \E t \in Tasks : SaveRead(t, TRUE)
  \/ \E t \in Tasks : SaveWrite(t, TRUE)
  \/ ClearStart
  \/ ClearKeys(TRUE)
  \/ ClearRemove(TRUE)
  \/ ClearRemoveLast(TRUE)
  \/ Tick(ShortStep)

SpecClearRace == Init /\ [][NextClearRace]_vars

---------------------------------------------------------------------------
(* The timeline of a daily entry: FeedScreen, LocationHistoryModal and the
   table timeline_entries *)

MaxStamp == 3

MaxHistory == 2

MaxRows == 3

MaxEdits == 3

\* the timestamps of stays: ISO strings in the code, compared for equality
TimelineTimes == 1..MaxStamp

\* a timestamp that is missing (undefined, or null in the table)
NoTimestamp == 0

\* a stay of the location history; every stored stay carries the label
\* getLocationName gave it
Stay(ts) == [timestamp |-> ts, locationName |-> "Home"]

\* getLocationHistoryForTimeline(date): the stays stored for the day, sorted
\* by timestamp
Histories ==
  {[i \in 1..Len(h) |-> Stay(h[i])] :
     h \in {g \in UNION {[1..n -> TimelineTimes] : n \in 0..MaxHistory} :
              \A i \in 1..(Len(g) - 1) : g[i] <= g[i + 1]}}

\* what a place search answers as the name of the place picked
PlaceNames == {"Cafe", ""}

\* a timeline entry held by the screen or stored as a row (column order_num
\* holds order)
TimelineEntry(id, locationName, timestamp, order) ==
  [id |-> id, locationName |-> locationName, timestamp |-> timestamp, order |-> order]

\* an EditableLocationEntry of the modal
EditableLocationEntry(locationName, timestamp, order) ==
  [locationName |-> locationName, timestamp |-> timestamp, order |-> order]

\* The latest timeline operation.
\*  op:          "merge", "add", "delete", "save", "edit", "open", "close",
\*               "load", or "none" before the first
\*  incoming:    the stays a merge was given
\*  before:      the sequence a merge was given as the existing timeline
\*  inputAfter:  what that same array holds once the merge is done
\*  after:       the merged timeline
\*  fresh:       the merged timeline is an array made by the merge
\*  rowsBefore:  the rows of the table before the operation
\*  malformed:   a save was given an entry without label or timestamp
\*  priorOp, priorIncoming: op and incoming of the operation before
Act(prev, op, incoming, before, inputAfter, after, fresh, rowsBefore, malformed) ==
  [op |-> op, incoming |-> incoming, before |-> before, inputAfter |-> inputAfter,
   after |-> after, fresh |-> fresh, rowsBefore |-> rowsBefore,
   malformed |-> malformed, priorOp |-> prev.op, priorIncoming |-> prev.incoming]

\* an operation that is no merge
Other(prev, op, rowsBefore, malformed) ==
  Act(prev, op, <<>>, <<>>, <<>>, <<>>, FALSE, rowsBefore, malformed)

detector == <<now, memory, storage, task, clear, fuel, obs>>

(* DatabaseService *)

\* createTimelineEntry: INSERT; the row gets the next rowid
createTimelineEntry(rows, rowid, entry) ==
  Append(rows, TimelineEntry(rowid + 1, entry.locationName, entry.timestamp,
                             entry.order))

\* deleteTimelineEntry: DELETE ... WHERE id = ?
deleteTimelineEntry(rows, id) == SelectSeq(rows, LAMBDA r : r.id # id)

\* getTimelineEntries: SELECT * ... ORDER BY order_num ASC (rows of equal
\* order_num in rowid order)
RECURSIVE getTimelineEntries(_)
getTimelineEntries(rows) ==
  IF rows = <<>> THEN <<>>
  ELSE LET m == CHOOSE i \in 1..Len(rows) :
                  \A j \in 1..Len(rows) :
                    \/ rows[i].order < rows[j].order
                    \/ rows[i].order = rows[j].order /\ i <= j
       IN  <<rows[m]>> \o
           getTimelineEntries([k \in 1..(Len(rows) - 1) |->
                                 IF k < m THEN rows[k] ELSE rows[k + 1]])

(* FeedScreen *)

\* a loop that creates every stay of todayLocations, known or not
RECURSIVE AddMissingUnfiltered(_, _, _)
AddMissingUnfiltered(todayLocations, existingLocationTimes, st) ==
  IF todayLocations = <<>> THEN st
  ELSE LET location == Head(todayLocations)
           order == Len(st.existingTimelines) + st.addedCount
           createdTimeline ==
             TimelineEntry(st.rowid + 1, location.locationName,
                           location.timestamp, order)
       IN  AddMissingUnfiltered(Tail(todayLocations), existingLocationTimes,
             [existingTimelines |-> Append(st.existingTimelines, createdTimeline),
              addedCount |-> st.addedCount + 1,
              rows |-> Append(st.rows, createdTimeline),
              rowid |-> st.rowid + 1])

\* The loop of handleAddTimeline, lines 260-280, over todayLocations; st
\* holds existingTimelines (the array of the screen state), addedCount, and
\* the table.
RECURSIVE AddMissing(_, _, _)
AddMissing(todayLocations, existingLocationTimes, st) ==
  IF todayLocations = <<>> THEN st
  ELSE LET location == Head(todayLocations)
       IN  IF location.timestamp \in existingLocationTimes
           THEN AddMissing(Tail(todayLocations), existingLocationTimes, st)
           ELSE LET order == Len(st.existingTimelines) + st.addedCount
                    createdTimeline ==
                      TimelineEntry(st.rowid + 1, location.locationName,
                                    location.timestamp, order)
                IN  AddMissing(Tail(todayLocations), existingLocationTimes,
                      [existingTimelines |-> Append(st.existingTimelines, createdTimeline),
                       addedCount |-> st.addedCount + 1,
                       rows |-> createTimelineEntry(st.rows, st.rowid, createdTimeline),
                       rowid |-> st.rowid + 1])

\* loadEntries: the screen state becomes what the table holds
loadEntries ==
  /\ ~showLocationHistory
  /\ timelineEntries' = getTimelineEntries(timeline_entries)
  /\ act' = Other(act, "load", timeline_entries, FALSE)
  /\ UNCHANGED <<timeline_entries, lastInsertRowId, showLocationHistory, entries,
                 edits, detector, comparison>>

\* handleAddTimeline(entryId).  For the entry of today the stays of today
\* that the timeline lacks are created and pushed on the array of the screen
\* state; for a past entry the current location (null when it cannot be
\* read: the throw is caught at line 313) is created and the state gets a
\* new array.
handleAddTimeline(isToday, todayLocations, location) ==
  /\ ~showLocationHistory
  /\ edits < MaxEdits
  /\ edits' = edits + 1
  /\ IF isToday
     THEN LET existingTimelines == timelineEntries
              existingLocationTimes ==
                {existingTimelines[i].timestamp : i \in 1..Len(existingTimelines)}
              st == AddMissing(todayLocations, existingLocationTimes,
                               [existingTimelines |-> existingTimelines,
                                addedCount |-> 0,
                                rows |-> timeline_entries,
                                rowid |-> lastInsertRowId])
          IN  /\ Len(st.rows) <= MaxRows
              /\ timeline_entries' = st.rows
              /\ lastInsertRowId' = st.rowid
              /\ timelineEntries' = st.existingTimelines
              /\ act' = Act(act, "merge", todayLocations, existingTimelines,
                            st.existingTimelines, st.existingTimelines, FALSE,
                            timeline_entries, FALSE)
     ELSE /\ todayLocations = <<>>
          /\ Len(timeline_entries) < MaxRows
          /\ IF location = NULL
             THEN UNCHANGED <<timeline_entries, lastInsertRowId, timelineEntries>>
             ELSE LET newOrder == Len(timelineEntries)
                      createdTimeline ==
                        TimelineEntry(lastInsertRowId + 1, Val(location).locationName,
                                      Val(location).timestamp, newOrder)
                  IN  /\ timeline_entries' =
                           createTimelineEntry(timeline_entries, lastInsertRowId,
                                               createdTimeline)
                      /\ lastInsertRowId' = lastInsertRowId + 1
                      /\ timelineEntries' = Append(timelineEntries, createdTimeline)
          /\ act' = Other(act, "add", timeline_entries, FALSE)
  /\ UNCHANGED <<showLocationHistory, entries, detector, comparison>>

\* a delete that also empties the day lists of the Daily Store
handleDeleteTimelineAndStays(timelineId) ==
  /\ ~showLocationHistory
  /\ edits < MaxEdits
  /\ edits' = edits + 1
  /\ \E i \in 1..Len(timelineEntries) : timelineEntries[i].id = timelineId
  /\ timeline_entries' = deleteTimelineEntry(timeline_entries, timelineId)
  /\ timelineEntries' = getTimelineEntries(timeline_entries')
  /\ act' = Other(act, "delete", timeline_entries, FALSE)
  /\ storedDays' = [k \in DOMAIN storedDays |-> <<>>]
  /\ UNCHANGED <<lastInsertRowId, showLocationHistory, entries, now, memory,
                 storedLast, task, clear, fuel, obs, comparison>>

\* handleDeleteTimeline(timelineId): the row is deleted and the entries are
\* loaded again
handleDeleteTimeline(timelineId) ==
  /\ ~showLocationHistory
  /\ edits < MaxEdits
  /\ edits' = edits + 1
  /\ \E i \in 1..Len(timelineEntries) : timelineEntries[i].id = timelineId
  /\ timeline_entries' = deleteTimelineEntry(timeline_entries, timelineId)
  /\ timelineEntries' = getTimelineEntries(timeline_entries')
  /\ act' = Other(act, "delete", timeline_entries, FALSE)
  /\ UNCHANGED <<lastInsertRowId, showLocationHistory, entries, detector, comparison>>

\* The creation loop of handleSaveTimeline, lines 373-392: an entry without
\* locationName or timestamp throws; order is newEntry.order || 0.
RECURSIVE CreateAll(_, _)
CreateAll(newEntries, st) ==
  IF newEntries = <<>> THEN st
  ELSE LET newEntry == Head(newEntries)
       IN  IF newEntry.locationName = "" \/ newEntry.timestamp = NoTimestamp
           THEN [st EXCEPT !.threw = TRUE]
           ELSE CreateAll(Tail(newEntries),
                  [rows |-> createTimelineEntry(st.rows, st.rowid, newEntry),
                   rowid |-> st.rowid + 1,
                   threw |-> FALSE])

\* the rows left when the entries of the screen state that have an id are
\* deleted, lines 361-370
RECURSIVE DeleteAll(_, _)
DeleteAll(existingEntries, rows) ==
  IF existingEntries = <<>> THEN rows
  ELSE DeleteAll(Tail(existingEntries),
                 deleteTimelineEntry(rows, Head(existingEntries).id))

(* LocationHistoryModal *)

\* entries mapped with order: index
RECURSIVE Reindex(_, _)
Reindex(list, index) ==
  IF list = <<>> THEN <<>>
  ELSE <<EditableLocationEntry(Head(list).locationName, Head(list).timestamp, index)>>
       \o Reindex(Tail(list), index + 1)

\* location.locationName || 'Unknown Location'
NameOrUnknown(locationName) ==
  IF locationName = "" THEN "Unknown Location" ELSE locationName

\* a filter that lets every new entry through
uniqueNewEntriesKeepAll(newEntries, existingTimestamps) == newEntries

\* newEntries.filter(entry => !existingTimestamps.includes(entry.timestamp))
uniqueNewEntries(newEntries, existingTimestamps) ==
  SelectSeq(newEntries, LAMBDA e : e.timestamp \notin existingTimestamps)

\* the modal opens and loadLocationHistory runs: the existing entries of the
\* timeline when there are any, the location history of the day otherwise
loadLocationHistory(locationHistory) ==
  /\ ~showLocationHistory
  /\ showLocationHistory' = TRUE
  /\ LET existingEntries == timelineEntries
     IN  entries' = IF Len(existingEntries) > 0
                    THEN Reindex(existingEntries, 0)
                    ELSE Reindex([i \in 1..Len(locationHistory) |->
                                    [locationHistory[i] EXCEPT
                                       !.locationName = NameOrUnknown(@)]], 0)
  /\ act' = Other(act, "open", timeline_entries, FALSE)
  /\ UNCHANGED <<timeline_entries, lastInsertRowId, timelineEntries, edits, detector, comparison>>

\* handleAddFromLocationHistory: the stays of the day whose timestamp no
\* entry has are put after the entries, and all are indexed again
handleAddFromLocationHistory(locationHistory) ==
  /\ showLocationHistory
  /\ edits < MaxEdits
  /\ edits' = edits + 1
  /\ LET newEntries ==
           [i \in 1..Len(locationHistory) |->
              EditableLocationEntry(NameOrUnknown(locationHistory[i].locationName),
                                    locationHistory[i].timestamp,
                                    Len(entries) + i - 1)]
         existingTimestamps == {entries[i].timestamp : i \in 1..Len(entries)}
         unique == uniqueNewEntries(newEntries, existingTimestamps)
         mergedEntries == entries \o unique
     IN  /\ Len(mergedEntries) <= MaxRows
         /\ entries' = IF Len(unique) > 0 THEN Reindex(mergedEntries, 0)
                       ELSE entries
         /\ act' = Act(act, "merge", locationHistory, entries, entries, entries',
                       Len(unique) > 0, timeline_entries, FALSE)
  /\ UNCHANGED <<timeline_entries, lastInsertRowId, timelineEntries,
                 showLocationHistory, detector, comparison>>

\* handleDeleteEntry(index): the entry is left out and the rest indexed again
handleDeleteEntry(index) ==
  /\ showLocationHistory
  /\ edits < MaxEdits
  /\ edits' = edits + 1
  /\ index \in 1..Len(entries)
  /\ entries' = Reindex([k \in 1..(Len(entries) - 1) |->
                           IF k < index THEN entries[k] ELSE entries[k + 1]], 0)
  /\ act' = Other(act, "edit", timeline_entries, FALSE)
  /\ UNCHANGED <<timeline_entries, lastInsertRowId, timelineEntries,
                 showLocationHistory, detector, comparison>>

\* handleSelectPlace(index, place): the entry takes the name the place search
\* answers
handleSelectPlace(index, name) ==
  /\ showLocationHistory
  /\ edits < MaxEdits
  /\ edits' = edits + 1
  /\ index \in 1..Len(entries)
  /\ entries' = [entries EXCEPT ![index].locationName = name]
  /\ act' = Other(act, "edit", timeline_entries, FALSE)
  /\ UNCHANGED <<timeline_entries, lastInsertRowId, timelineEntries,
                 showLocationHistory, detector, comparison>>

\* handleSave: the entries go to onSave, that is to handleSaveTimeline, which
\* deletes the rows of the entries the screen holds, creates the new ones
\* and loads the entries again; what it throws it catches itself (line 398),
\* so the modal closes either way.
handleSave ==
  /\ showLocationHistory
  /\ edits < MaxEdits
  /\ edits' = edits + 1
  /\ LET existingEntries == timelineEntries
         st == CreateAll(entries,
                         [rows |-> DeleteAll(existingEntries, timeline_entries),
                          rowid |-> lastInsertRowId,
                          threw |-> FALSE])
     IN  /\ timeline_entries' = st.rows
         /\ lastInsertRowId' = st.rowid
         /\ timelineEntries' = IF st.threw THEN timelineEntries
                               ELSE getTimelineEntries(st.rows)
         /\ act' = Other(act, "save", timeline_entries,
                         \E i \in 1..Len(entries) :
                           \/ entries[i].locationName = ""
                           \/ entries[i].timestamp = NoTimestamp)
  /\ showLocationHistory' = FALSE
  /\ entries' = <<>>
  /\ UNCHANGED <<detector, comparison>>

\* handleClose: the modal closes and its entries are dropped
handleClose ==
  /\ showLocationHistory
  /\ showLocationHistory' = FALSE
  /\ entries' = <<>>
  /\ act' = Other(act, "close", timeline_entries, FALSE)
  /\ UNCHANGED <<timeline_entries, lastInsertRowId, timelineEntries, edits, detector, comparison>>

\* The timeline of one daily entry is edited from the feed screen and from
\* the modal, one handler at a time.
NextTimeline ==
  \/ loadEntries
  \/ \E todayLocations \in Histories : handleAddTimeline(TRUE, todayLocations, NULL)
  \/ \E location \in {NULL} \cup {Some(Stay(ts)) : ts \in TimelineTimes} :
       handleAddTimeline(FALSE, <<>>, location)
  \/ \E timelineId \in 1..(MaxRows * MaxEdits) : handleDeleteTimeline(timelineId)
  \/ \E locationHistory \in Histories : loadLocationHistory(locationHistory)
  \/ \E locationHistory \in Histories : handleAddFromLocationHistory(locationHistory)
  \/ \E index \in 1..MaxRows : handleDeleteEntry(index)
  \/ \E index \in 1..MaxRows, name \in PlaceNames : handleSelectPlace(index, name)
  \/ handleSave
  \/ handleClose

SpecTimeline == Init /\ [][NextTimeline]_vars

---------------------------------------------------------------------------
(* hasLocationNameChanged applied to labels *)

MaxParts == 4

\* the texts of a part of a label: none, a name, the same name spelt with a
\* capital after a space, another name
PartTexts == {<<>>, <<"a">>, <<" ", "A">>, <<"b">>}

\* parts put together with commas
RECURSIVE JoinCommas(_)
JoinCommas(parts) ==
  IF Len(parts) = 1 THEN parts[1]
  ELSE parts[1] \o <<",">> \o JoinCommas(Tail(parts))

\* the labels of one to MaxParts parts; the label of one part without text
\* is the empty label
Labels == {JoinCommas(parts) : parts \in UNION {[1..n -> PartTexts] : n \in 1..MaxParts}}

\* the classifier is about to be called with some last label
InitClassifier ==
  /\ now = StartTime
  /\ lastSignificantLocation = NULL
  /\ lastLocationUpdate = NULL
  /\ stationaryStartTime = NULL
  /\ storedLast = NULL
  /\ storedDays = <<>>
  /\ task = [t \in Tasks |-> IdleTask]
  /\ clear = IdleClear
  /\ delivered = 0
  /\ cleared = 0
  /\ obs = NewObs(TRUE, NULL)
  /\ timeline_entries = <<>>
  /\ lastInsertRowId = 0
  /\ timelineEntries = <<>>
  /\ showLocationHistory = FALSE
  /\ entries = <<>>
  /\ edits = 0
  /\ act = Other([op |-> "none", incoming |-> <<>>], "none", <<>>, FALSE)
  /\ \E oldName \in Labels :
       comparison = [oldName |-> oldName, newName |-> <<>>, result |-> NULL]

\* hasLocationNameChanged(oldName, newName) is called and answers
Compare(newName) ==
  /\ comparison.result = NULL
  /\ comparison' = [comparison EXCEPT
                      !.newName = newName,
                      !.result = Some(hasLocationNameChanged(comparison.oldName, newName))]
  /\ UNCHANGED <<detector, feed>>

NextClassifier == \E newName \in Labels : Compare(newName)

SpecClassifier == InitClassifier /\ [][NextClassifier]_vars

---------------------------------------------------------------------------
(* The stays of the Daily Store *)

Stays == UNION {{storedDays[k][i] : i \in 1..Len(storedDays[k])} : k \in DOMAIN storedDays}

\* the store holds the stay of the fix
Stored(fix) ==
  \E e \in Stays : e.latitude = fix.latitude /\ e.timestamp = fix.timestamp

\* C1: a service that started with nothing persisted records no stay for the
\* fix that completes its first stationary window, and once the task has
\* ended it has recorded the stay of the fix that completes a later window
\* at a place whose label differs.
C1_SecondWindowYieldsStay ==
  obs.fresh =>
    /\ obs.first # NULL => ~Stored(Val(obs.first))
    /\ (obs.second # NULL /\ Quiet) => Stored(Val(obs.second))

\* C2: a service that started with nothing persisted has a last significant
\* location once the fix that completes its first stationary window has been
\* handled, and no stay is recorded for that fix.
C2_FirstCandidateAdopted ==
  (obs.fresh /\ obs.first # NULL /\ Quiet) =>
    /\ lastSignificantLocation # NULL
    /\ ~Stored(Val(obs.first))

\* an invocation of the task handed its fix to the detector in this step
Processes ==
  /\ obs'.last.op \in {"track", "ripe", "wait"}
  /\ \/ delivered' # delivered /\ lastSignificantLocation # NULL
     \/ \E t \in Tasks : task[t].pc = "load" /\ task'[t].pc # "load"

\* C3: the first fix a service processes after its construction (at the
\* first start of the app and after every restart) is not a candidate: the
\* check returns false at once, the invocation ends and the Daily Store is
\* left as it was.
C3_FirstFixNeverConfirmed ==
  [][(Processes /\ obs.count = 0) =>
       /\ obs'.last.op \in {"track", "wait"}
       /\ \A t \in Tasks : task'[t].pc = "idle"
       /\ storedDays' = storedDays]_vars

\* C3 happens: after a restart that followed a stay recorded in this run, the
\* first fix has been processed and started a window.
C3_Witness ==
  /\ obs.count = 1
  /\ obs.last.op = "track"
  /\ lastSignificantLocation # NULL
  /\ Val(lastSignificantLocation).timestamp >= StartTime
  /\ Stored(Val(lastSignificantLocation))

\* the label of the candidate was looked up and classified by task t in this step
Classifies(t) ==
  /\ task[t].pc = "geocode"
  /\ task'[t].pc # "geocode"
  /\ obs'.last.op \in {"threw", "significant", "same"}

\* C4: a candidate whose label names structurally the same place as the last
\* significant location is not significant: the invocation ends without
\* saving, and the last significant location, in memory and in storage, and
\* the Daily Store are left as they were.
C4_SamePlaceLeavesAllUnchanged ==
  [][\A t \in Tasks :
       (/\ Classifies(t)
        /\ lastSignificantLocation # NULL
        /\ SamePlace(Val(lastSignificantLocation).locationName, obs'.last.label)) =>
         /\ obs'.last.op = "same"
         /\ task'[t].pc = "idle"
         /\ lastSignificantLocation' = lastSignificantLocation
         /\ storedLast' = storedLast
         /\ storedDays' = storedDays]_vars

\* C4 happens: a candidate was found not significant against a stay recorded
\* in this run, its label spelt differently but naming the same place.
C4_Witness ==
  /\ obs.last.op = "same"
  /\ lastSignificantLocation # NULL
  /\ Val(lastSignificantLocation).timestamp >= StartTime
  /\ SamePlace(Val(lastSignificantLocation).locationName, obs.last.label)
  /\ Val(lastSignificantLocation).locationName # obs.last.label

C8_RestartKeepsDetectorState ==
  [][(/\ Processes
      /\ obs.pre # NULL
      /\ Val(obs.pre).lastLocationUpdate # NULL
      /\ ~BeyondRadius(calculateDistance(Val(Val(obs.pre).lastLocationUpdate).latitude,
                                         Val(obs'.lat)))) =>
       /\ lastSignificantLocation' = Val(obs.pre).lastSignificantLocation
       /\ lastLocationUpdate' = Val(obs.pre).lastLocationUpdate
       /\ stationaryStartTime' = Val(obs.pre).stationaryStartTime]_vars

\* the append of saveSignificantLocation was written by task t in this step
Appends(t) == task[t].pc = "saveWrite" /\ storedDays' # storedDays

\* C9: the list an append writes under its day key holds no stay whose
\* timestamp is 24 hours or more before the instant of the append.
C9_AppendKeepsLastDayOnly ==
  [][\A t \in Tasks :
       Appends(t) =>
         \A i \in 1..Len(storedDays'[task[t].key]) :
           storedDays'[task[t].key][i].timestamp > (task[t].oneDayAgo)]_vars

\* C9 happens: an append has been written that left out a stay of the list.
C9_Witness == obs.last.op = "saved" /\ obs.last.n > 0

\* C10: when clearAllLocationData has completed, the Daily Store is empty and
\* the detector has no last significant location, in memory or in storage,
\* no last fix and no stationary clock.
C10_ClearErasesDetector ==
  obs.last.op = "cleared" =>
    /\ \A k \in DOMAIN storedDays : storedDays[k] = <<>>
    /\ storedLast = NULL
    /\ lastSignificantLocation = NULL
    /\ lastLocationUpdate = NULL
    /\ stationaryStartTime = NULL

\* C11: at most one invocation of the background location task is between
\* its start and the end of saveSignificantLocation.
C11_OneInvocationAtATime == Cardinality({t \in Tasks : task[t].pc # "idle"}) <= 1

C13_StorageFailureSurfaced ==
  obs.last.op \in {"unsaved", "uncleared"} => obs.surfaced

\* every geocoder failed: the device geocoder threw or gave no usable
\* address, and the remote request threw or gave no result
DeviceFailed(dev) == dev.threw \/ DeviceAddress(dev.result) = <<>>

RemoteFailed(rem) == rem.threw \/ rem.status # "OK" \/ Len(rem.results) = 0

C15_CoordinatesOnlyAfterBothFailed ==
  [][\A t \in Tasks :
       task[t].pc = "geocode" =>
         \A dev \in DeviceAnswers(Val(task[t].loc).latitude),
            rem \in RemoteAnswers(Val(task[t].loc).latitude) :
           (/\ Classify(t, dev, rem)
            /\ obs'.last.label = CoordLabel(Val(task[t].loc).latitude)) =>
             DeviceFailed(dev) /\ RemoteFailed(rem)]_vars

---------------------------------------------------------------------------
(* Timeline merge *)

\* timestamp and label of the entries of a sequence, in order
Items(list) == [i \in 1..Len(list) |-> <<list[i].timestamp, list[i].locationName>>]

TimestampsOf(list) == {list[i].timestamp : i \in 1..Len(list)}

\* the incoming stays whose timestamp no existing entry has, in order
Remaining(incoming, existing) ==
  SelectSeq(incoming, LAMBDA stay : stay.timestamp \notin TimestampsOf(existing))

\* C16: the timeline a merge yields (the array handleAddTimeline leaves in
\* the screen state, the entries handleAddFromLocationHistory leaves in the
\* modal) is the existing entries, in their order, followed by the incoming
\* stays whose timestamp no existing entry has, in their order; an incoming
\* stay whose timestamp an existing entry has is dropped.
C16_MergeDropsKnownAppendsRest ==
  act.op = "merge" =>
    Items(act.after) = Items(act.before) \o Items(Remaining(act.incoming, act.before))

\* a merge into a timeline that is not empty dropped a stay and appended one
C16_Witness ==
  /\ act.op = "merge"
  /\ act.before # <<>>
  /\ Len(Remaining(act.incoming, act.before)) \in 1..(Len(act.incoming) - 1)

\* the order values of a sequence of entries are exactly 0..n-1
Dense(list) ==
  /\ {list[i].order : i \in 1..Len(list)} = 0..(Len(list) - 1)
  /\ \A i, j \in 1..Len(list) : list[i].order = list[j].order => i = j

\* C17: after any timeline edit (a merge from location history, an add by
\* handleAddTimeline, a delete, a save) the order values of the stored
\* entries of the day, and those of the entries the modal holds, are exactly
\* 0..n-1.
C17_OrderIsDense ==
  act.op \in {"merge", "add", "delete", "edit", "save"} =>
    Dense(timeline_entries) /\ Dense(entries)

\* C18: a merge of the list of stays that the merge just before it was
\* given changes nothing: the timeline it yields is the one it was given
\* (same entries, same order, same positions) and the table is as it was;
\* and so does a merge of an empty list of stays.
C18_MergeIsIdempotent ==
  (/\ act.op = "merge"
   /\ \/ act.priorOp = "merge" /\ act.priorIncoming = act.incoming
      \/ act.incoming = <<>>) =>
    /\ act.after = act.before
    /\ timeline_entries = act.rowsBefore

\* two merges of the same stays, one after the other, into a timeline that
\* was empty before the first
C18_Witness ==
  /\ act.op = "merge"
  /\ act.priorOp = "merge"
  /\ act.incoming # <<>>
  /\ act.priorIncoming = act.incoming
  /\ edits = 2
  /\ TimestampsOf(act.incoming) \subseteq TimestampsOf(act.before)

C20_MalformedSaveStoresNothing ==
  (act.op = "save" /\ act.malformed) => timeline_entries = act.rowsBefore

---------------------------------------------------------------------------
(* Timeline edits and the Daily Store *)

\* a timeline handler that edits (merge, add, delete, edit in the modal,
\* save) ran in this step
TimelineEdit == edits' = edits + 1

\* C21: no timeline edit (handleAddTimeline, handleSaveTimeline,
\* handleDeleteTimeline, and edit, delete and add-from-history in the
\* LocationHistoryModal) changes the Daily Store: the day lists and the
\* persisted last significant location are after the edit what they were
\* before.
C21_TimelineEditsLeaveStore ==
  [][TimelineEdit => storedDays' = storedDays /\ storedLast' = storedLast]_vars

\* C21 happens: with a stay in the Daily Store, a row of the timeline was
\* deleted after others were added
C21_Witness ==
  /\ act.op = "delete"
  /\ timeline_entries # <<>>
  /\ storedLast # NULL
  /\ \E k \in DOMAIN storedDays : storedDays[k] # <<>>

---------------------------------------------------------------------------
(* The classifier *)

\* the label made of the first three parts of a label, as they are spelt
FirstThree(label) ==
  LET pieces == split(label)
  IN  JoinCommas(IF Len(pieces) > 3 THEN SubSeq(pieces, 1, 3) ELSE pieces)

\* part i of the two labels is equal, or one of them has no part i
PartAgrees(a, b, i) ==
  \/ Len(Parts(a)) < i
  \/ Len(Parts(b)) < i
  \/ Parts(a)[i] = Parts(b)[i]

\* C22: hasLocationNameChanged answers false exactly when both labels are
\* non-empty, their first parts (lower-cased, trimmed) are equal, and the
\* second and the third parts are equal or missing on either side; with an
\* empty label on either side it answers true; and it answers for two
\* labels what it answers for their first three parts.
C22_ClassifierIsStructural ==
  comparison.result # NULL =>
    LET a == comparison.oldName
        b == comparison.newName
    IN  /\ Val(comparison.result) =
             ~(/\ a # <<>>
               /\ b # <<>>
               /\ Parts(a)[1] = Parts(b)[1]
               /\ PartAgrees(a, b, 2)
               /\ PartAgrees(a, b, 3))
        /\ (a = <<>> \/ b = <<>>) => Val(comparison.result)
        /\ Val(comparison.result) = hasLocationNameChanged(FirstThree(a), FirstThree(b))

\* C22 happens: a label of four parts and a label of two, spelt
\* differently from the first character on, were found to be the same place
C22_Witness ==
  /\ comparison.result = Some(FALSE)
  /\ Len(Parts(comparison.oldName)) = 4
  /\ Len(Parts(comparison.newName)) = 2
  /\ comparison.oldName[1] # comparison.newName[1]

---------------------------------------------------------------------------
(* Confirmation *)

\* the list of a day of the Daily Store, empty when there is none
DayList(days, key) == IF key \in DOMAIN days THEN days[key] ELSE <<>>

---------------------------------------------------------------------------
(* The stationary window *)

C25_ClockIffLastFix == (stationaryStartTime = NULL) <=> (lastLocationUpdate = NULL)

\* C25 happens: clearAllLocationData has completed while the detector was
\* tracking a window
C25_Witness ==
  /\ obs.last.op = "cleared"
  /\ lastSignificantLocation = NULL
  /\ stationaryStartTime # NULL
  /\ lastLocationUpdate # NULL

\* the fix handed to the detector in this step lies within the radius of
\* the last fix
WithinRadius ==
  /\ lastLocationUpdate # NULL
  /\ ~BeyondRadius(calculateDistance(Val(lastLocationUpdate).latitude, Val(obs'.lat)))

\* C26: a fix becomes a candidate only if it lies within 100 m of the last
\* fix and five minutes or more have passed since the stationary window
\* began; and a fix within 100 m of the last fix that is handed to the
\* detector less than five minutes after the window began is no candidate
\* (no label is looked up, nothing is saved) and leaves the start of the
\* window and the last significant location as they were.
C26_ShortWindowChangesNothing ==
  [][Processes =>
       /\ obs'.last.op = "ripe" =>
            /\ WithinRadius
            /\ stationaryStartTime # NULL
            /\ now - Val(stationaryStartTime) >= STATIONARY_THRESHOLD
       /\ (/\ WithinRadius
           /\ stationaryStartTime # NULL
           /\ now - Val(stationaryStartTime) < STATIONARY_THRESHOLD) =>
            /\ obs'.last.op = "wait"
            /\ Quiet'
            /\ stationaryStartTime' = stationaryStartTime
            /\ lastSignificantLocation' \in {lastSignificantLocation, storedLast}
            /\ storedDays' = storedDays]_vars

---------------------------------------------------------------------------
(* Batches *)

\* C28: every fix of a batch the provider delivers is handed to the
\* detector, one at a time and in their order; so when the invocation that
\* was called with the batch has ended, the fix the detector processed last
\* is the last fix of the batch.
C28_WholeBatchIsProcessed ==
  [][\A t \in Tasks, locations \in Batches :
       (TaskStart(t, locations) /\ Quiet') =>
         obs'.lat = Some(locations[Len(locations)])]_vars

---------------------------------------------------------------------------
(* Clearing while the task is suspended *)

---------------------------------------------------------------------------
(* Appends to one day key *)

\* the stays of a day's list
StaysOf(days, key) == {DayList(days, key)[i] : i \in 1..Len(DayList(days, key))}

=================================================================================
